---------------------------- MODULE Spec2Model ----------------------------
(***************************************************************************)
(* Model of the dollar monitor.                                            *)
(*                                                                         *)
(*  - dollar_scraper_advanced.py: one run of main() scrapes two sites,     *)
(*    compares the quotes with the stored snapshot, posts at most a        *)
(*    notification and rewrites the snapshot (specification Spec).         *)
(*  - bot_realtime.py: the Telegram bot with its subscriber set, its       *)
(*    handlers and the periodic broadcast job (specification SpecBot).     *)
(*                                                                         *)
(* Money is counted in half pesos, so that promedio = (compra + venta) / 2 *)
(* of two whole-peso prices is an exact integer: 5.0 pesos is 10.          *)
(* Two quote types stand for the seven of the scrapers: "Blue" (DolarHoy,  *)
(* compra and venta scraped independently) and "Solidario" (FinanzasArgy,  *)
(* one price copied into the three fields).                                *)
(***************************************************************************)
EXTENDS Integers, Sequences, FiniteSets, TLC

VARIABLES
    pc,              \* position of the run of main()
    storage_file,    \* content of scraped_prices.json
    current_prices,  \* check_and_notify: current_prices
    last_prices,     \* check_and_notify: last_prices
    changes,         \* check_and_notify: changes
    posts,           \* POSTs to the Telegram gateway made by this run, in order
    trace,           \* steps of check_and_notify taken by this run, in order
    SUBS,            \* bot: the in-memory subscriber set
    subs_file,       \* bot: content of subscribers.json
    handler,         \* bot: the update handler being run, and where it is
    job,             \* bot: where the periodic job_broadcast is
    scraping,        \* bot: who has a scrape_all running on an executor thread
    pending,         \* bot: recipients of list(SUBS) whose send_message has not returned
    recipients,      \* bot: list(SUBS) as taken when the delivery loop started
    attempts,        \* bot: send_message calls of this broadcast, per chat
    failed,          \* bot: chats whose send_message raised in this broadcast
    loaded,          \* bot: SUBS as loaded at start
    last_action,     \* bot: per chat, the last button that changed SUBS
    last_save,       \* bot: outcome of the last save_subs
    unsubscribed     \* bot: chats whose unsubscribe handler has finished and
                     \*      that have not pressed subscribe since

monitor_vars == <<pc, storage_file, current_prices, last_prices, changes, posts, trace>>

bot_vars == <<SUBS, subs_file, handler, job, scraping, pending, recipients,
              attempts, failed, loaded, last_action, last_save, unsubscribed>>

vars == <<monitor_vars, bot_vars>>

-----------------------------------------------------------------------------
(* Bounds *)

\* Chats that talk to the bot are 1..MaxChats.
MaxChats == 2

\* Longest list subscribers.json holds when the bot starts.
MaxFileLen == 2

\* Whole-peso prices a page can show are 5*k and 5*k + 1 for k in 0..MaxMult.
MaxMult == 1

-----------------------------------------------------------------------------
(* Values *)

\* self.min_change_threshold = 5.0 pesos, in half pesos
min_change_threshold == 10

Abs(x) == IF x < 0 THEN 0 - x ELSE x

\* The empty dict {}
EmptyDict == [t \in {} |-> 0]

\* float(match.group(n).replace(',', '')) of a scraped whole-peso token, in half pesos
ParsePrice(token) == token + token

ScrapedTokens == {5 * k + o : k \in 0..MaxMult, o \in {0, 1}}

\* cotizaciones['Blue'] = {'compra': compra, 'venta': venta, 'promedio': (compra + venta) / 2}
TwoPriceQuote(compra, venta) ==
    [compra |-> compra, venta |-> venta, promedio |-> (compra + venta) \div 2]

\* cotizaciones['Solidario'] = {'compra': precio, 'venta': precio, 'promedio': precio}
OnePriceQuote(precio) ==
    [compra |-> precio, venta |-> precio, promedio |-> precio]

\* dict.update
Update(a, b) ==
    [t \in (DOMAIN a) \cup (DOMAIN b) |-> IF t \in DOMAIN b THEN b[t] ELSE a[t]]

\* What scrape_dolarhoy can return: {} on an exception or when the pattern
\* does not match, else the Blue quote read from the page.
scrape_dolarhoy ==
    {EmptyDict} \cup
    { [t \in {"Blue"} |-> TwoPriceQuote(ParsePrice(c), ParsePrice(v))] :
        c \in ScrapedTokens, v \in ScrapedTokens }

\* What scrape_finanzasargy can return.
scrape_finanzasargy ==
    {EmptyDict} \cup
    { [t \in {"Solidario"} |-> OnePriceQuote(ParsePrice(p))] : p \in ScrapedTokens }

\* all_prices = {}; all_prices.update(dolarhoy); all_prices.update(finanzas)
get_all_prices ==
    { Update(Update(EmptyDict, d), f) : d \in scrape_dolarhoy, f \in scrape_finanzasargy }

-----------------------------------------------------------------------------
(* Snapshot store *)

FileMissing == [kind |-> "missing", prices |-> EmptyDict]
FileCorrupt == [kind |-> "corrupt", prices |-> EmptyDict]
\* A JSON document: the 'prices' object it holds ({} when it holds none).
FileJson(prices) == [kind |-> "json", prices |-> prices]

\* load_last_prices: {} when the file is missing or cannot be parsed;
\* then last_data.get('prices', {}) if last_data else {}
load_last_prices(file) ==
    IF file.kind = "json" THEN file.prices ELSE EmptyDict

\* Outcomes of save_prices: written; open() raised (file untouched);
\* json.dump raised after open(..., 'w') truncated the file.
SaveOutcomes == {"ok", "open_failed", "dump_failed"}

save_prices_merging(file, prices, outcome) ==
    CASE outcome = "ok"          -> FileJson(Update(file.prices, prices))
      [] outcome = "open_failed" -> file
      [] outcome = "dump_failed" -> FileCorrupt

save_prices(file, prices, outcome) ==
    CASE outcome = "ok"          -> FileJson(prices)
      [] outcome = "open_failed" -> file
      [] outcome = "dump_failed" -> FileCorrupt

-----------------------------------------------------------------------------
(* Change detection *)

\* current_price = cotizacion['promedio'] ; last_price = last_prices[tipo]['promedio']
ComparedPrice_venta(cotizacion) == cotizacion.venta

ComparedPrice(cotizacion) == cotizacion.promedio

\* if change >= self.min_change_threshold
IsSignificant_strict(change) == change > min_change_threshold

IsSignificant(change) == change >= min_change_threshold

\* The loop of check_and_notify over current_prices.items()
DetectChanges(current, last) ==
    LET changed == { tipo \in DOMAIN current :
                        /\ tipo \in DOMAIN last
                        /\ IsSignificant(Abs(ComparedPrice(current[tipo])
                                             - ComparedPrice(last[tipo]))) }
    IN  [tipo \in changed |-> [old_price |-> ComparedPrice(last[tipo]),
                               new_price |-> ComparedPrice(current[tipo])]]

-----------------------------------------------------------------------------
(* Messages *)

\* format_comparison_message raises ZeroDivisionError at
\* change_percent = (change / old_price) * 100 when an old_price is 0.
FormatRaises(chg) == \E tipo \in DOMAIN chg : chg[tipo].old_price = 0

\* One block per change: old, new, change, percentage (as the fraction
\* 100 * change / old_price) and direction.
format_comparison_message(chg) ==
    [kind   |-> "changes",
     blocks |-> [tipo \in DOMAIN chg |->
                   LET change == chg[tipo].new_price - chg[tipo].old_price
                   IN  [old_price      |-> chg[tipo].old_price,
                        new_price      |-> chg[tipo].new_price,
                        change         |-> change,
                        change_percent |-> <<100 * change, chg[tipo].old_price>>,
                        direction      |-> IF change > 0 THEN "SUBIO" ELSE "BAJO"]]]

\* inicio_message: one line "tipo: $promedio" per current quote
inicio_message_venta(current) ==
    [kind |-> "initial", blocks |-> [tipo \in DOMAIN current |-> current[tipo].venta]]

inicio_message(current) ==
    [kind |-> "initial", blocks |-> [tipo \in DOMAIN current |-> current[tipo].promedio]]

\* The text posted by main()'s except branch
error_message == [kind |-> "error", blocks |-> EmptyDict]

\* requests.post: HTTP 200, another status, or a raised connection error
PostOutcomes == {"200", "non200", "raised"}

Post(message, outcome) == [message |-> message, outcome |-> outcome]

-----------------------------------------------------------------------------
(* One run of main() *)

MonitorInit ==
    /\ pc = "idle"
    /\ storage_file \in {FileMissing, FileCorrupt, FileJson(EmptyDict)}
    /\ current_prices = EmptyDict
    /\ last_prices = EmptyDict
    /\ changes = EmptyDict
    /\ posts = <<>>
    /\ trace = <<>>

\* main(): monitor = DollarScraperMonitor(). The constructor raises ValueError
\* when a variable is unset or empty.  environment: "set" both hold a value,
\* "empty" both are in os.environ but one is '', "unset" one is absent.
Construct ==
    /\ pc \in {"idle", "done"}
    /\ \E environment \in {"set", "empty", "unset"} :
          pc' = CASE environment = "set"   -> "extract"
                  [] environment = "empty" -> "fatal"
                  [] environment = "unset" -> "fatal_silent"
    /\ current_prices' = EmptyDict
    /\ last_prices' = EmptyDict
    /\ changes' = EmptyDict
    /\ posts' = <<>>
    /\ trace' = <<>>
    /\ UNCHANGED storage_file
    /\ UNCHANGED bot_vars

\* check_and_notify, lines 275-282: current_prices = self.get_all_prices();
\* return when it is empty.
Extract ==
    /\ pc = "extract"
    /\ \E prices \in get_all_prices :
          /\ current_prices' = prices
          /\ pc' = IF prices = EmptyDict THEN "done" ELSE "detect"
    /\ trace' = Append(trace, "extract")
    /\ UNCHANGED <<storage_file, last_prices, changes, posts>>
    /\ UNCHANGED bot_vars

\* check_and_notify, lines 284-308: load the snapshot and detect the changes.
Detect ==
    /\ pc = "detect"
    /\ last_prices' = load_last_prices(storage_file)
    /\ changes' = DetectChanges(current_prices, load_last_prices(storage_file))
    /\ pc' = "notify"
    /\ trace' = Append(trace, "detect")
    /\ UNCHANGED <<storage_file, current_prices, posts>>
    /\ UNCHANGED bot_vars

\* send_telegram_message: one POST; every outcome is caught and turned into
\* a return value, so the caller goes on.
send_telegram_message_propagating(message) ==
    \E outcome \in PostOutcomes :
        /\ posts' = Append(posts, Post(message, outcome))
        /\ trace' = Append(trace, "send")
        /\ pc' = IF outcome = "raised" THEN "fatal" ELSE "save"

send_telegram_message(message) ==
    \E outcome \in PostOutcomes :
        /\ posts' = Append(posts, Post(message, outcome))
        /\ trace' = Append(trace, "send")
        /\ pc' = "save"

\* check_and_notify, lines 310-333
Notify ==
    /\ pc = "notify"
    /\ IF changes # EmptyDict
         THEN IF FormatRaises(changes)
                THEN /\ pc' = "fatal"
                     /\ UNCHANGED <<posts, trace>>
                ELSE send_telegram_message(format_comparison_message(changes))
         ELSE IF last_prices = EmptyDict
                THEN send_telegram_message(inicio_message(current_prices))
                ELSE /\ pc' = "save"
                     /\ UNCHANGED <<posts, trace>>
    /\ UNCHANGED <<storage_file, current_prices, last_prices, changes>>
    /\ UNCHANGED bot_vars

\* check_and_notify, lines 335-337: self.save_prices(current_prices)
Save ==
    /\ pc = "save"
    /\ \E outcome \in SaveOutcomes :
          /\ storage_file' = save_prices(storage_file, current_prices, outcome)
          /\ pc' = IF outcome = "ok" THEN "done" ELSE "fatal"
          /\ trace' = Append(trace, IF outcome = "ok" THEN "write_ok" ELSE "write_failed")
    /\ UNCHANGED <<current_prices, last_prices, changes, posts>>
    /\ UNCHANGED bot_vars

\* main(), lines 344-359: the except branch posts the error when both
\* variables are in os.environ, and swallows whatever that POST does.
FatalHandler ==
    /\ pc \in {"fatal", "fatal_silent"}
    /\ IF pc = "fatal"
         THEN \E outcome \in PostOutcomes :
                 posts' = Append(posts, Post(error_message, outcome))
         ELSE UNCHANGED posts
    /\ pc' = "done"
    /\ UNCHANGED <<storage_file, current_prices, last_prices, changes, trace>>
    /\ UNCHANGED bot_vars

MonitorNext ==
    \/ Construct
    \/ Extract
    \/ Detect
    \/ Notify
    \/ Save
    \/ FatalHandler

-----------------------------------------------------------------------------
(* The bot: subscribers *)

Chats == 1..MaxChats

Range(seq) == {seq[i] : i \in DOMAIN seq}

SubsMissing == [kind |-> "missing", list |-> <<>>]
SubsCorrupt == [kind |-> "corrupt", list |-> <<>>]
SubsJson(list) == [kind |-> "json", list |-> list]

\* load_subs: set(json.load(f)); set() when the file is missing or unreadable
load_subs(file) == IF file.kind = "json" THEN Range(file.list) ELSE {}

\* sorted(list(subs))
RECURSIVE sorted(_)
sorted(subs) ==
    IF subs = {} THEN <<>>
    ELSE LET lowest == CHOOSE c \in subs : \A d \in subs : c <= d
         IN  <<lowest>> \o sorted(subs \ {lowest})

\* save_subs: json.dump(sorted(list(subs)), f); open() or the dump may raise
save_subs(file, subs, outcome) ==
    CASE outcome = "ok"          -> SubsJson(sorted(subs))
      [] outcome = "open_failed" -> file
      [] outcome = "dump_failed" -> SubsCorrupt

\* SUBS.add(cid) / SUBS.discard(cid)
Discard_toggle(subs, cid) == IF cid \in subs THEN subs \ {cid} ELSE subs \cup {cid}

Discard(subs, cid) == subs \ {cid}

Add(subs, cid) == subs \cup {cid}

HandlerIdle == [kind |-> "none", cid |-> 0, at |-> "idle"]

NoAttempts == [c \in Chats |-> 0]

BotInit ==
    /\ subs_file \in {SubsMissing, SubsCorrupt} \cup
          { SubsJson(list) :
              list \in UNION { [1..n -> Chats] : n \in 0..MaxFileLen } }
    /\ SUBS = load_subs(subs_file)
    /\ loaded = SUBS
    /\ handler = HandlerIdle
    /\ job = "idle"
    /\ scraping = {}
    /\ pending = {}
    /\ recipients = {}
    /\ attempts = NoAttempts
    /\ failed = {}
    /\ last_action = [c \in Chats |-> "none"]
    /\ last_save = "none"
    /\ unsubscribed = {}

-----------------------------------------------------------------------------
(* The bot: handlers.  The application is built without concurrent_updates, *)
(* so it runs one update handler at a time; the job queue runs              *)
(* job_broadcast beside them on the same event loop.                        *)

\* cmd_dolar up to its first await: get_snapshot_text hands scrape_all to
\* the default executor.
cmd_dolar ==
    /\ handler = HandlerIdle
    /\ \E cid \in Chats : handler' = [kind |-> "dolar", cid |-> cid, at |-> "scrape"]
    /\ scraping' = scraping \cup {"handler"}
    /\ UNCHANGED <<SUBS, subs_file, job, pending, recipients, attempts, failed,
                   loaded, last_action, last_save, unsubscribed>>
    /\ UNCHANGED monitor_vars

\* on_button up to await query.answer()
on_button ==
    /\ handler = HandlerIdle
    /\ \E cid \in Chats, data \in {"sub", "unsub", "now"} :
          handler' = [kind |-> data, cid |-> cid, at |-> "answer"]
    /\ UNCHANGED <<SUBS, subs_file, job, scraping, pending, recipients, attempts,
                   failed, loaded, last_action, last_save, unsubscribed>>
    /\ UNCHANGED monitor_vars

\* query.answer() raised: the handler ends there.
on_button_answer_raised ==
    /\ handler.at = "answer"
    /\ handler' = HandlerIdle
    /\ UNCHANGED <<SUBS, subs_file, job, scraping, pending, recipients, attempts,
                   failed, loaded, last_action, last_save, unsubscribed>>
    /\ UNCHANGED monitor_vars

\* SUBS.add(cid); save_subs(SUBS), then await query.edit_message_text
on_button_sub ==
    /\ handler.at = "answer"
    /\ handler.kind = "sub"
    /\ SUBS' = Add(SUBS, handler.cid)
    /\ last_action' = [last_action EXCEPT ![handler.cid] = "sub"]
    /\ unsubscribed' = unsubscribed \ {handler.cid}
    /\ \E outcome \in SaveOutcomes :
          /\ subs_file' = save_subs(subs_file, SUBS', outcome)
          /\ last_save' = outcome
          /\ handler' = IF outcome = "ok" THEN [handler EXCEPT !.at = "edit"]
                                          ELSE HandlerIdle
    /\ UNCHANGED <<job, scraping, pending, recipients, attempts, failed, loaded>>
    /\ UNCHANGED monitor_vars

\* SUBS.discard(cid); save_subs(SUBS), then await query.edit_message_text
on_button_unsub ==
    /\ handler.at = "answer"
    /\ handler.kind = "unsub"
    /\ SUBS' = Discard(SUBS, handler.cid)
    /\ last_action' = [last_action EXCEPT ![handler.cid] = "unsub"]
    /\ UNCHANGED unsubscribed
    /\ \E outcome \in SaveOutcomes :
          /\ subs_file' = save_subs(subs_file, SUBS', outcome)
          /\ last_save' = outcome
          /\ handler' = IF outcome = "ok" THEN [handler EXCEPT !.at = "edit"]
                                          ELSE HandlerIdle
    /\ UNCHANGED <<job, scraping, pending, recipients, attempts, failed, loaded>>
    /\ UNCHANGED monitor_vars

\* query.edit_message_text returned or raised: the handler is over.
on_button_edited ==
    /\ handler.at = "edit"
    /\ handler' = HandlerIdle
    /\ unsubscribed' = IF handler.kind = "unsub"
                         THEN unsubscribed \cup {handler.cid}
                         ELSE unsubscribed
    /\ UNCHANGED <<SUBS, subs_file, job, scraping, pending, recipients, attempts,
                   failed, loaded, last_action, last_save>>
    /\ UNCHANGED monitor_vars

\* "now": get_snapshot_text hands scrape_all to the default executor.
on_button_now ==
    /\ handler.at = "answer"
    /\ handler.kind = "now"
    /\ handler' = [handler EXCEPT !.at = "scrape"]
    /\ scraping' = scraping \cup {"handler"}
    /\ UNCHANGED <<SUBS, subs_file, job, pending, recipients, attempts, failed,
                   loaded, last_action, last_save, unsubscribed>>
    /\ UNCHANGED monitor_vars

\* The handler's scrape_all returned or raised; the handler replies with the
\* text or with the error and is over.
handler_scrape_done ==
    /\ handler.at = "scrape"
    /\ handler' = HandlerIdle
    /\ scraping' = scraping \ {"handler"}
    /\ UNCHANGED <<SUBS, subs_file, job, pending, recipients, attempts, failed,
                   loaded, last_action, last_save, unsubscribed>>
    /\ UNCHANGED monitor_vars

-----------------------------------------------------------------------------
(* The bot: job_broadcast *)

\* The timer fires: return when SUBS is empty, else start the scrape.
job_broadcast ==
    /\ job \in {"idle", "finished"}
    /\ pending' = {}
    /\ recipients' = {}
    /\ attempts' = NoAttempts
    /\ failed' = {}
    /\ IF SUBS = {}
         THEN /\ job' = "finished"
              /\ UNCHANGED scraping
         ELSE /\ job' = "scrape"
              /\ scraping' = scraping \cup {"job"}
    /\ UNCHANGED <<SUBS, subs_file, handler, loaded, last_action, last_save, unsubscribed>>
    /\ UNCHANGED monitor_vars

\* The job's scrape_all raised: the job logs and returns.
job_scrape_raised ==
    /\ job = "scrape"
    /\ job' = "finished"
    /\ scraping' = scraping \ {"job"}
    /\ UNCHANGED <<SUBS, subs_file, handler, pending, recipients, attempts, failed,
                   loaded, last_action, last_save, unsubscribed>>
    /\ UNCHANGED monitor_vars

\* The job's scrape_all returned: the loop starts over list(SUBS) as it is
\* now and, with no await in between, calls send_message for its first chat.
\* list(SUBS) has no fixed order.
job_scrape_done ==
    /\ job = "scrape"
    /\ scraping' = scraping \ {"job"}
    /\ recipients' = SUBS
    /\ pending' = SUBS
    /\ IF SUBS = {}
         THEN /\ job' = "finished"
              /\ UNCHANGED attempts
         ELSE /\ job' = "send"
              /\ \E first \in SUBS : attempts' = [attempts EXCEPT ![first] = @ + 1]
    /\ UNCHANGED <<SUBS, subs_file, handler, failed,
                   loaded, last_action, last_save, unsubscribed>>
    /\ UNCHANGED monitor_vars

\* The chat whose send_message the loop is awaiting
InFlight == { c \in pending : attempts[c] > 0 }

\* await context.bot.send_message(chat_id, text) returned or raised; an
\* exception is printed, and the loop calls send_message for its next chat
\* or ends.
job_send_aborting ==
    /\ job = "send"
    /\ \E chat_id \in InFlight, outcome \in {"sent", "raised"} :
          /\ failed' = IF outcome = "raised" THEN failed \cup {chat_id} ELSE failed
          /\ pending' = IF outcome = "raised" THEN {} ELSE pending \ {chat_id}
          /\ IF pending' = {}
               THEN /\ job' = "finished"
                    /\ UNCHANGED attempts
               ELSE /\ job' = "send"
                    /\ \E following \in pending' :
                          attempts' = [attempts EXCEPT ![following] = @ + 1]
    /\ UNCHANGED <<SUBS, subs_file, handler, scraping, recipients,
                   loaded, last_action, last_save, unsubscribed>>
    /\ UNCHANGED monitor_vars

job_send ==
    /\ job = "send"
    /\ \E chat_id \in InFlight, outcome \in {"sent", "raised"} :
          /\ failed' = IF outcome = "raised" THEN failed \cup {chat_id} ELSE failed
          /\ pending' = pending \ {chat_id}
          /\ IF pending' = {}
               THEN /\ job' = "finished"
                    /\ UNCHANGED attempts
               ELSE /\ job' = "send"
                    /\ \E following \in pending' :
                          attempts' = [attempts EXCEPT ![following] = @ + 1]
    /\ UNCHANGED <<SUBS, subs_file, handler, scraping, recipients,
                   loaded, last_action, last_save, unsubscribed>>
    /\ UNCHANGED monitor_vars

BotNext ==
    \/ cmd_dolar
    \/ on_button
    \/ on_button_answer_raised
    \/ on_button_sub
    \/ on_button_unsub
    \/ on_button_edited
    \/ on_button_now
    \/ handler_scrape_done
    \/ job_broadcast
    \/ job_scrape_raised
    \/ job_scrape_done
    \/ job_send

-----------------------------------------------------------------------------
(* Specifications *)

\* The bot not started
BotOff ==
    /\ subs_file = SubsMissing
    /\ SUBS = {}
    /\ loaded = {}
    /\ handler = HandlerIdle
    /\ job = "idle"
    /\ scraping = {}
    /\ pending = {}
    /\ recipients = {}
    /\ attempts = NoAttempts
    /\ failed = {}
    /\ last_action = [c \in Chats |-> "none"]
    /\ last_save = "none"
    /\ unsubscribed = {}

\* The monitor not started
MonitorOff ==
    /\ pc = "idle"
    /\ storage_file = FileMissing
    /\ current_prices = EmptyDict
    /\ last_prices = EmptyDict
    /\ changes = EmptyDict
    /\ posts = <<>>
    /\ trace = <<>>

\* Runs of main() of dollar_scraper_advanced.py
Init == MonitorInit /\ BotOff

Next == MonitorNext

Spec == Init /\ [][Next]_vars

\* The bot process of bot_realtime.py
InitBot == BotInit /\ MonitorOff

NextBot == BotNext

SpecBot == InitBot /\ [][NextBot]_vars

-----------------------------------------------------------------------------
(* Properties of one run of main() *)

Steps == {trace[i] : i \in DOMAIN trace}

DetectionDone == "detect" \in Steps

SendAttempted == "send" \in Steps

WriteAttempted == Steps \cap {"write_ok", "write_failed"} # {}

\* The run has returned to main()'s caller after it scraped.
RunEnded == pc = "done" /\ "extract" \in Steps

\* The snapshot the run started with: Detect reads it before anything writes
\* the file, and a run that stops before Detect never writes the file.
PriorPrices == IF DetectionDone THEN last_prices ELSE load_last_prices(storage_file)

InBoth == (DOMAIN current_prices) \cap (DOMAIN last_prices)

PostedKinds == {posts[i].message.kind : i \in DOMAIN posts}

\* C1: once detection has run against a non-empty previous snapshot, the
\* change records are exactly the quote types present in both current and
\* previous whose compared value (promedio) differs by at least 5.0 pesos
\* (10 half pesos, inclusive); a type present only in current has no record.
C1_ChangeSetExact ==
    (DetectionDone /\ last_prices # EmptyDict) =>
        /\ DOMAIN changes =
              { tipo \in InBoth :
                  Abs(current_prices[tipo].promedio - last_prices[tipo].promedio) >= 10 }
        /\ \A tipo \in (DOMAIN current_prices) \ (DOMAIN last_prices) :
              tipo \notin DOMAIN changes

\* C1 witness: a delta of exactly 5.0 pesos is recorded while another type,
\* present only in current, is not.
C1_Witness ==
    /\ DetectionDone
    /\ \E tipo \in DOMAIN changes :
          Abs(changes[tipo].new_price - changes[tipo].old_price) = 10
    /\ \E tipo \in (DOMAIN current_prices) \ (DOMAIN last_prices) :
          tipo \notin DOMAIN changes

C3_InitialForEverySet ==
    (RunEnded /\ PriorPrices = EmptyDict) =>
        /\ \E i \in DOMAIN posts :
              /\ posts[i].message.kind = "initial"
              /\ posts[i].message.blocks =
                    [tipo \in DOMAIN current_prices |-> current_prices[tipo].promedio]
        /\ "changes" \notin PostedKinds

\* C3 amended: a run that starts with no prior prices and scrapes a non-empty
\* quote set posts the initial summary of that set (one line per type with
\* its promedio) exactly once and never a change alert; when the scraped set
\* is empty the run posts nothing and does not touch the snapshot.
C3_InitialForNonEmptySet ==
    (RunEnded /\ PriorPrices = EmptyDict) =>
        IF current_prices # EmptyDict
          THEN /\ Cardinality({ i \in DOMAIN posts : posts[i].message.kind = "initial" }) = 1
               /\ \A i \in DOMAIN posts :
                     posts[i].message.kind = "initial" =>
                        /\ i = 1
                        /\ posts[i].message.blocks =
                              [tipo \in DOMAIN current_prices |->
                                  current_prices[tipo].promedio]
               /\ "changes" \notin PostedKinds
          ELSE /\ posts = <<>>
               /\ ~WriteAttempted

\* C3 witness: a first run that scraped quotes whose venta and promedio
\* differ has posted the initial summary.
C3_Witness ==
    /\ RunEnded
    /\ PriorPrices = EmptyDict
    /\ \E tipo \in DOMAIN current_prices :
          current_prices[tipo].venta # current_prices[tipo].promedio
    /\ "initial" \in PostedKinds

NoSignificantDelta ==
    \A tipo \in (DOMAIN current_prices) \cap (DOMAIN PriorPrices) :
        Abs(current_prices[tipo].promedio - PriorPrices[tipo].promedio) < 10

StepRank(step) ==
    CASE step = "extract" -> 1
      [] step = "detect"  -> 2
      [] step = "send"    -> 3
      [] OTHER            -> 4

\* C5: the steps of a run happen in the order extraction, change detection,
\* notification attempt, snapshot write, each at most once; and once a
\* notification has been attempted, whatever its outcome, the run is about
\* to write the snapshot or has attempted the write.
C5_StepOrder ==
    /\ \A i, j \in DOMAIN trace : i < j => StepRank(trace[i]) < StepRank(trace[j])
    /\ \A i \in DOMAIN trace : i > 1 => StepRank(trace[i - 1]) >= StepRank(trace[i]) - 2
    /\ Len(trace) >= 2 => (trace[1] = "extract" /\ trace[2] = "detect")
    /\ SendAttempted => (pc = "save" \/ WriteAttempted)
    /\ (pc = "done" /\ SendAttempted) => WriteAttempted

\* C5 witness: the POST raised a connection error and the write followed it.
C5_Witness ==
    /\ pc = "done"
    /\ \E i \in DOMAIN posts :
          posts[i].outcome = "raised" /\ posts[i].message.kind # "error"
    /\ trace = <<"extract", "detect", "send", "write_ok">>

\* C6 as stated: a change record whose old value is zero does not stop the
\* run: the change alert is posted and the snapshot write is attempted.
C6_ZeroOldValueStillAlerts ==
    (RunEnded /\ \E tipo \in DOMAIN changes : changes[tipo].old_price = 0) =>
        /\ "changes" \in PostedKinds
        /\ WriteAttempted

\* C7 as stated: a run of main() makes at most one POST to the gateway.
C7_AtMostOnePost == Len(posts) <= 1

-----------------------------------------------------------------------------
(* Properties of the bot *)

\* C8 as stated: at most one scrape_all started by get_snapshot_text runs at
\* any time.
C8_OneScrapeAtATime == Cardinality(scraping) <= 1

\* C9: once a subscribe or unsubscribe action has completed (its save_subs
\* returned), subscribers.json holds the strictly increasing list of exactly
\* the in-memory set; and a chat is in the set iff the last button of its
\* own that changed the set was subscribe, or it was loaded at start and has
\* pressed neither since, so that a repeated subscribe and an unsubscribe of
\* a chat that is not subscribed change nothing.
C9_SubscribersPersisted ==
    /\ last_save = "ok" =>
          /\ subs_file.kind = "json"
          /\ Range(subs_file.list) = SUBS
          /\ \A i, j \in DOMAIN subs_file.list :
                i < j => subs_file.list[i] < subs_file.list[j]
    /\ \A c \in Chats :
          c \in SUBS <=> \/ last_action[c] = "sub"
                         \/ last_action[c] = "none" /\ c \in loaded

\* C9 witness: the file was rewritten with two subscribers, one loaded at
\* start and untouched, the other subscribed since.
C9_Witness ==
    /\ last_save = "ok"
    /\ Cardinality(SUBS) >= 2
    /\ \E c \in SUBS : last_action[c] = "none"
    /\ \E c \in SUBS : last_action[c] = "sub" /\ c \notin loaded

\* C10: in one broadcast no chat gets more than one send attempt, only chats
\* of list(SUBS) as taken when delivery started get one, while the loop runs
\* every chat of that list without an attempt is still to be reached and
\* exactly one send is awaited, and when the job is over every chat of that
\* list has had its attempt, whichever sends raised.
C10_EachRecipientOnce ==
    /\ \A c \in Chats : attempts[c] <= 1 /\ (attempts[c] = 1 => c \in recipients)
    /\ failed \subseteq recipients
    /\ job = "send" =>
          /\ { c \in recipients : attempts[c] = 0 } \subseteq pending
          /\ Cardinality(pending \ { c \in recipients : attempts[c] = 0 }) = 1
    /\ job = "finished" => \A c \in recipients : attempts[c] = 1

\* C10 witness: a broadcast to at least two chats is over and every send of
\* it raised.
C10_Witness ==
    /\ job = "finished"
    /\ Cardinality(recipients) >= 2
    /\ failed = recipients
    /\ \A c \in recipients : attempts[c] = 1

\* C11 as stated: once a chat's unsubscribe action has completed, and until
\* the chat subscribes again, no step of the broadcast sends it a message,
\* wherever the job was when the unsubscribe handler ran.
C11_NoSendAfterUnsubscribe ==
    [][\A c \in unsubscribed : attempts'[c] <= attempts[c]]_vars

=============================================================================
